---------------------------- MODULE Spec2Model ----------------------------
(***************************************************************************)
(* The PcapNG block framer of src/pcapng/blocks/block_common.rs:           *)
(* Block::from_reader, Block::from_slice, Block::write_to, Block::parsed,  *)
(* the BlockType <-> u32 conversions, ParsedBlock::from_slice and          *)
(* PcapNgBlock::write_block_to.                                            *)
(*                                                                         *)
(* Bytes are numbers, byte strings are sequences of bytes.  Every byte of  *)
(* every input is below 128, so that each 32-bit field, read in either     *)
(* byte order, stays below 2^31 (the range of the model checker's          *)
(* integers); within that range `as u32` and `as usize` change nothing.    *)
(***************************************************************************)
EXTENDS Integers, Sequences, FiniteSets, TLC

(***************************************************************************)
(* Bounds of the checked inputs.                                           *)
(***************************************************************************)
\* 4-byte words physically present in the body of a generated frame.
MaxBodyWords == 2
\* Blocks in a generated run of blocks.
MaxBlocks == 2
\* Unknown(c) is enumerated for every c in 0..MaxTypeCode (and a few more).
MaxTypeCode == 40
\* Bytes in the body a per-type encoder writes.
MaxEncBody == 3

(***************************************************************************)
(* Byte order (byteorder::ByteOrder) and crate::Endianness.                *)
(***************************************************************************)
ByteOrders == {"BigEndian", "LittleEndian"}

\* Endianness::new::<B>()
EndiannessNew(B) == IF B = "BigEndian" THEN "Big" ELSE "Little"

\* the `match endianness { Big => ..::<BigEndian>, Little => ..::<LittleEndian> }`
EndiannessOrder(e) == IF e = "Big" THEN "BigEndian" ELSE "LittleEndian"

\* &s[..n]
Take(s, n) == SubSeq(s, 1, n)

\* &s[n..]
Drop(s, n) == SubSeq(s, n + 1, Len(s))

\* ReadBytesExt::read_u32::<B> on four bytes
read_u32(B, s) ==
    IF B = "BigEndian"
    THEN s[1] * 16777216 + s[2] * 65536 + s[3] * 256 + s[4]
    ELSE s[4] * 16777216 + s[3] * 65536 + s[2] * 256 + s[1]

\* WriteBytesExt::write_u32::<B>: the four bytes written
write_u32(B, n) ==
    IF B = "BigEndian"
    THEN << n \div 16777216, (n \div 65536) % 256, (n \div 256) % 256, n % 256 >>
    ELSE << n % 256, (n \div 256) % 256, (n \div 65536) % 256, n \div 16777216 >>

\* u32::swap_bytes
swap_bytes(n) == read_u32("LittleEndian", write_u32("BigEndian", n))

(***************************************************************************)
(* BlockType and its conversions.                                          *)
(***************************************************************************)
SectionHeaderCode == 168627466    \* 0x0A0D0D0A
MagicBig == 439041101             \* 0x1A2B3C4D
MagicLittle == 1295788826         \* 0x4D3C2B1A

Known(tag) == [tag |-> tag, code |-> 0]

Unknown(c) == [tag |-> "Unknown", code |-> c]

KnownTags ==
    {"SectionHeader", "InterfaceDescription", "Packet", "SimplePacket",
     "NameResolution", "InterfaceStatistics", "EnhancedPacket",
     "SystemdJournalExport"}

\* A plausible slip: the SystemdJournalExport arm is missing.
BlockTypeFrom_NoJournal(src) ==
    CASE src = SectionHeaderCode -> Known("SectionHeader")
      [] src = 1 -> Known("InterfaceDescription")
      [] src = 2 -> Known("Packet")
      [] src = 3 -> Known("SimplePacket")
      [] src = 4 -> Known("NameResolution")
      [] src = 5 -> Known("InterfaceStatistics")
      [] src = 6 -> Known("EnhancedPacket")
      [] OTHER -> Unknown(src)

\* impl From<u32> for BlockType
BlockTypeFrom(src) ==
    CASE src = SectionHeaderCode -> Known("SectionHeader")
      [] src = 1 -> Known("InterfaceDescription")
      [] src = 2 -> Known("Packet")
      [] src = 3 -> Known("SimplePacket")
      [] src = 4 -> Known("NameResolution")
      [] src = 5 -> Known("InterfaceStatistics")
      [] src = 6 -> Known("EnhancedPacket")
      [] src = 9 -> Known("SystemdJournalExport")
      [] OTHER -> Unknown(src)

\* A plausible slip: the code of an Unknown is dropped.
BlockTypeInto_DropCode(t) ==
    CASE t.tag = "SectionHeader" -> SectionHeaderCode
      [] t.tag = "InterfaceDescription" -> 1
      [] t.tag = "Packet" -> 2
      [] t.tag = "SimplePacket" -> 3
      [] t.tag = "NameResolution" -> 4
      [] t.tag = "InterfaceStatistics" -> 5
      [] t.tag = "EnhancedPacket" -> 6
      [] t.tag = "SystemdJournalExport" -> 9
      [] OTHER -> 0

\* impl Into<u32> for BlockType
BlockTypeInto(t) ==
    CASE t.tag = "SectionHeader" -> SectionHeaderCode
      [] t.tag = "InterfaceDescription" -> 1
      [] t.tag = "Packet" -> 2
      [] t.tag = "SimplePacket" -> 3
      [] t.tag = "NameResolution" -> 4
      [] t.tag = "InterfaceStatistics" -> 5
      [] t.tag = "EnhancedPacket" -> 6
      [] t.tag = "SystemdJournalExport" -> 9
      [] OTHER -> t.code

(***************************************************************************)
(* Results.  One record shape for every outcome:                           *)
(*   kind  "none" (not called yet), "Ok", "InvalidField",                  *)
(*         "IncompleteBuffer" or "IoError"                                 *)
(*   n     the count of IncompleteBuffer(n)                                *)
(*   msg   the text of InvalidField(msg), or the io::ErrorKind             *)
(*   rem   Ok: the remaining slice / the unread rest of the stream         *)
(*   block Ok: the Block                                                   *)
(***************************************************************************)
NoBlock ==
    [type_ |-> [tag |-> "none", code |-> 0], initial_len |-> 0,
     body |-> << >>, trailer_len |-> 0, endianness |-> "none"]

MkBlock(type_, initial_len, body, trailer_len, endianness) ==
    [type_ |-> type_, initial_len |-> initial_len, body |-> body,
     trailer_len |-> trailer_len, endianness |-> endianness]

NoRes == [kind |-> "none", n |-> 0, msg |-> "", rem |-> << >>, block |-> NoBlock]

Ok(rem, block) ==
    [kind |-> "Ok", n |-> 0, msg |-> "", rem |-> rem, block |-> block]

InvalidField(msg) ==
    [kind |-> "InvalidField", n |-> 0, msg |-> msg, rem |-> << >>, block |-> NoBlock]

IncompleteBuffer(n) ==
    [kind |-> "IncompleteBuffer", n |-> n, msg |-> "", rem |-> << >>, block |-> NoBlock]

\* PcapError::IoError(e), from the `?` on an io::Result
IoError(errkind) ==
    [kind |-> "IoError", n |-> 0, msg |-> errkind, rem |-> << >>, block |-> NoBlock]

(***************************************************************************)
(* The checks shared by the four decode branches.                          *)
(***************************************************************************)
\* `(initial_len % 4) != 0`, then `initial_len < 12`: the message of the
\* InvalidField returned, "" when both tests pass.
LengthError(initial_len) ==
    IF (initial_len % 4) # 0 THEN "Block: (initial_len % 4) != 0"
    ELSE IF initial_len < 12 THEN "Block: initial_len < 12"
    ELSE ""

\* A plausible slip: the trailer is read and never compared.
LengthsDiffer_Never(initial_len, trailer_len) == FALSE

\* `initial_len != trailer_len`
LengthsDiffer(initial_len, trailer_len) == initial_len # trailer_len

\* A plausible slip: the shortfall counts the 12 bytes of the envelope.
Shortfall_Envelope(initial_len, slice_len) == initial_len - 12 - slice_len

\* `initial_len as usize - 8 - slice.len()`
Shortfall(initial_len, slice_len) == initial_len - 8 - slice_len

\* A plausible slip: the length is read in the caller's order like any
\* other block's.
SectionLenOrder_Caller(B) == B

\* The order the SectionHeader's leading length is first read in: BigEndian,
\* whatever the caller's B.
SectionLenOrder(B) == "BigEndian"

\* A plausible slip: the two arms are exchanged.
MagicEndianness_Swapped(magic) ==
    CASE magic = MagicBig -> "Little"
      [] magic = MagicLittle -> "Big"
      [] OTHER -> "invalid"

\* `match magic { 0x1A2B3C4D => Big, 0x4D3C2B1A => Little, _ => Err }`
MagicEndianness(magic) ==
    CASE magic = MagicBig -> "Big"
      [] magic = MagicLittle -> "Little"
      [] OTHER -> "invalid"


(***************************************************************************)
(* Block::from_slice                                                       *)
(***************************************************************************)
\* The SectionHeader branch; `slice1` is the slice after the type tag.
from_slice_section(B, type_, slice1) ==
    LET len_read == read_u32(SectionLenOrder(B), Take(slice1, 4))
        slice == Drop(slice1, 4)
        \* tmp_slice: the magic is read from a copy, `slice` keeps it
        magic == read_u32("BigEndian", Take(slice, 4))
        endianness == MagicEndianness(magic)
        initial_len == IF endianness = "Little" THEN swap_bytes(len_read)
                       ELSE len_read
        body_len == initial_len - 12
        body == Take(slice, body_len)
        rem0 == Drop(slice, body_len)
        trailer_len == read_u32(EndiannessOrder(endianness), Take(rem0, 4))
        rem == Drop(rem0, 4)
    IN  IF endianness = "invalid"
        THEN InvalidField("SectionHeaderBlock: invalid magic number")
        ELSE IF LengthError(initial_len) # ""
        THEN InvalidField(LengthError(initial_len))
        ELSE IF Len(slice) < initial_len - 8
        THEN IncompleteBuffer(Shortfall(initial_len, Len(slice)))
        ELSE IF LengthsDiffer(initial_len, trailer_len)
        THEN InvalidField("Block initial_length != trailer_length")
        ELSE Ok(rem, MkBlock(type_, initial_len, body, trailer_len, endianness))

\* The common branch; `slice1` is the slice after the type tag.
from_slice_common(B, type_, slice1) ==
    LET initial_len == read_u32(B, Take(slice1, 4))
        slice == Drop(slice1, 4)
        body_len == initial_len - 12
        body == Take(slice, body_len)
        rem0 == Drop(slice, body_len)
        trailer_len == read_u32(B, Take(rem0, 4))
        rem == Drop(rem0, 4)
    IN  IF LengthError(initial_len) # ""
        THEN InvalidField(LengthError(initial_len))
        ELSE IF Len(slice) < initial_len - 8
        THEN IncompleteBuffer(Shortfall(initial_len, Len(slice)))
        ELSE IF LengthsDiffer(initial_len, trailer_len)
        THEN InvalidField("Block initial_length != trailer_length")
        ELSE Ok(rem, MkBlock(type_, initial_len, body, trailer_len,
                             EndiannessNew(B)))

from_slice(B, slice0) ==
    IF Len(slice0) < 12
    THEN IncompleteBuffer(12 - Len(slice0))
    ELSE LET type_ == BlockTypeFrom(read_u32(B, Take(slice0, 4)))
             slice1 == Drop(slice0, 4)
         IN  IF type_ = Known("SectionHeader")
             THEN from_slice_section(B, type_, slice1)
             ELSE from_slice_common(B, type_, slice1)

(***************************************************************************)
(* Block::from_reader.  The stream is the sequence of bytes still unread;  *)
(* a read of more bytes than are left fails with UnexpectedEof.            *)
(***************************************************************************)
\* vec![0_u8; n]
ZeroVec(n) == [i \in 1..n |-> 0]

\* A plausible slip: the magic is consumed and never put back.
RewriteMagic_Skipped(body, magic) == body

\* `(&mut body[..]).write_u32::<BigEndian>(magic)`: the body afterwards
\* (the write fails with WriteZero on a body shorter than four bytes).
RewriteMagic(body, magic) == write_u32("BigEndian", magic) \o Drop(body, 4)

\* The SectionHeader branch; `r1` is the stream after the type tag.
from_reader_section(B, type_, r1) ==
    LET len_read == read_u32(SectionLenOrder(B), Take(r1, 4))
        r2 == Drop(r1, 4)
        magic == read_u32("BigEndian", Take(r2, 4))
        r3 == Drop(r2, 4)
        endianness == MagicEndianness(magic)
        initial_len == IF endianness = "Little" THEN swap_bytes(len_read)
                       ELSE len_read
        body_len == initial_len - 12
        body0 == RewriteMagic(ZeroVec(body_len), magic)
        \* reader.read_exact(&mut body[4..])
        body == Take(body0, 4) \o Take(r3, body_len - 4)
        r4 == Drop(r3, body_len - 4)
        trailer_len == read_u32(EndiannessOrder(endianness), Take(r4, 4))
        r5 == Drop(r4, 4)
    IN  IF Len(r1) < 4 THEN IoError("UnexpectedEof")
        ELSE IF Len(r2) < 4 THEN IoError("UnexpectedEof")
        ELSE IF endianness = "invalid"
        THEN InvalidField("SectionHeaderBlock: invalid magic number")
        ELSE IF LengthError(initial_len) # ""
        THEN InvalidField(LengthError(initial_len))
        ELSE IF body_len < 4 THEN IoError("WriteZero")
        ELSE IF Len(r3) < body_len - 4 THEN IoError("UnexpectedEof")
        ELSE IF Len(r4) < 4 THEN IoError("UnexpectedEof")
        ELSE IF LengthsDiffer(initial_len, trailer_len)
        THEN InvalidField("Block initial_length != trailer_length")
        ELSE Ok(r5, MkBlock(type_, initial_len, body, trailer_len, endianness))

\* The common branch; `r1` is the stream after the type tag.
from_reader_common(B, type_, r1) ==
    LET initial_len == read_u32(B, Take(r1, 4))
        r2 == Drop(r1, 4)
        body_len == initial_len - 12
        \* reader.read_exact(&mut body[..]) over vec![0_u8; body_len]
        body == Take(r2, body_len)
        r3 == Drop(r2, body_len)
        trailer_len == read_u32(B, Take(r3, 4))
        r4 == Drop(r3, 4)
    IN  IF Len(r1) < 4 THEN IoError("UnexpectedEof")
        ELSE IF LengthError(initial_len) # ""
        THEN InvalidField(LengthError(initial_len))
        ELSE IF Len(r2) < body_len THEN IoError("UnexpectedEof")
        ELSE IF Len(r3) < 4 THEN IoError("UnexpectedEof")
        ELSE IF LengthsDiffer(initial_len, trailer_len)
        THEN InvalidField("Block initial_length != trailer_length")
        ELSE Ok(r4, MkBlock(type_, initial_len, body, trailer_len,
                            EndiannessNew(B)))

from_reader(B, stream) ==
    IF Len(stream) < 4
    THEN IoError("UnexpectedEof")
    ELSE LET type_ == BlockTypeFrom(read_u32(B, Take(stream, 4)))
             r1 == Drop(stream, 4)
         IN  IF type_ = Known("SectionHeader")
             THEN from_reader_section(B, type_, r1)
             ELSE from_reader_common(B, type_, r1)

(***************************************************************************)
(* Block::write_to, Block::parsed, ParsedBlock::from_slice                 *)
(***************************************************************************)
\* The bytes written and the count returned, for a writer that accepts
\* every byte.
write_to(B, block) ==
    [out |-> write_u32(B, BlockTypeInto(block.type_))
             \o write_u32(B, block.initial_len)
             \o block.body
             \o write_u32(B, block.trailer_len),
     ret |-> 12 + Len(block.body)]

\* A plausible slip: the reconstructed length leaves out the trailer.
UnknownLength_NoTrailer(slice) == Len(slice) + 8

\* `slice.len() as u32 + 12`
UnknownLength(slice) == Len(slice) + 12

\* The per-type decoders are other files' code: for a known type the result
\* names the decoder called and the order it is called with.  For an unknown
\* type the result is the UnknownBlock built from (type_, length, slice).
ParsedBlock_from_slice(B, type_, slice) ==
    IF type_.tag = "SectionHeader"
    THEN [kind |-> "Delegated", variant |-> type_.tag, order |-> "BigEndian",
          rem |-> << >>, type_ |-> type_, length |-> 0, value |-> slice]
    ELSE IF type_.tag \in KnownTags
    THEN [kind |-> "Delegated", variant |-> type_.tag, order |-> B,
          rem |-> << >>, type_ |-> type_, length |-> 0, value |-> slice]
    ELSE [kind |-> "Ok", variant |-> "Unknown", order |-> B,
          rem |-> << >>, type_ |-> type_, length |-> UnknownLength(slice),
          value |-> slice]

\* Block::parsed: the dispatch on the block's own endianness; `.map(|r| r.1)`
\* drops the remainder.
parsed(block) ==
    [ParsedBlock_from_slice(EndiannessOrder(block.endianness), block.type_,
                            block.body) EXCEPT !.rem = << >>]

(***************************************************************************)
(* PcapNgBlock::write_block_to.  `body` is what the value's own write_to   *)
(* writes (the same bytes into the sink and into the writer).              *)
(***************************************************************************)
\* A plausible slip: the total leaves out the trailing length field.
write_block_to_ShortTotal(B, block_type, body) ==
    LET len == Len(body) + 8
    IN  [out |-> write_u32(B, BlockTypeInto(block_type)) \o write_u32(B, len)
                 \o body \o write_u32(B, len),
         ret |-> len]

write_block_to(B, block_type, body) ==
    LET len == Len(body) + 12
    IN  [out |-> write_u32(B, BlockTypeInto(block_type)) \o write_u32(B, len)
                 \o body \o write_u32(B, len),
         ret |-> len]


(***************************************************************************)
(* State.                                                                  *)
(*   wire     the bytes of the file or stream                              *)
(*   order    the byte order B the caller asserts                          *)
(*   avail    how many bytes of `wire` the caller has buffered             *)
(*   sres     the result of Block::from_slice on the buffered bytes        *)
(*   rres     the result of Block::from_reader on the buffered bytes       *)
(*   fedFrom  the buffer size before the caller last buffered more (-1:    *)
(*            never)                                                       *)
(*   post     the last operation on a decoded Block, and its result        *)
(*   frames   the blocks a run of blocks was encoded from                  *)
(*   rem      a run: the slice not yet decoded                             *)
(*   cur      a run: the endianness in force                               *)
(*   blocks   a run: the Blocks decoded so far                             *)
(*   last     a run: the result of the last from_slice call                *)
(*   bt, code, back   a BlockType, its u32, and the BlockType of that u32  *)
(*   value    a per-type block value: its BLOCK_TYPE and encoded body      *)
(*   emitted  what write_block_to wrote for `value`, and returned          *)
(***************************************************************************)
VARIABLES wire, order, avail, sres, rres, fedFrom, post,
          frames, rem, cur, blocks, last,
          bt, code, back,
          value, emitted

decVars == << wire, order, avail, sres, rres, fedFrom, post >>
runVars == << frames, rem, cur, blocks, last >>
typeVars == << bt, code, back >>
encVars == << value, emitted >>
vars == << decVars, runVars, typeVars, encVars >>

NoType == [tag |-> "none", code |-> 0]

NoParsed ==
    [kind |-> "none", variant |-> "", order |-> "", rem |-> << >>,
     type_ |-> NoType, length |-> 0, value |-> << >>]

NoPost ==
    [op |-> "none", src |-> "", B |-> "", block |-> NoBlock, out |-> << >>,
     ret |-> 0, via |-> "", res |-> NoRes, parsed |-> NoParsed]

NoEmitted == [done |-> FALSE, out |-> << >>, ret |-> 0]

NoValue == [block_type |-> NoType, body |-> << >>]

(***************************************************************************)
(* The inputs: frames laid out as the wire format lays a block out (type,  *)
(* total length, body, total length), well formed or not.                  *)
(***************************************************************************)
MagicBigWord == write_u32("BigEndian", MagicBig)

MagicLittleWord == write_u32("BigEndian", MagicLittle)

BadMagicWord == << 127, 127, 127, 127 >>

PadWord == << 1, 2, 3, 4 >>

FirstWords == {MagicBigWord, MagicLittleWord, BadMagicWord}

RECURSIVE Pad(_)
Pad(k) == IF k = 0 THEN << >> ELSE PadWord \o Pad(k - 1)

FrameBodies ==
    {<< >>} \cup {m \o Pad(k - 1) : m \in FirstWords, k \in 1..MaxBodyWords}

FrameLens == {8, 12, 13} \cup {12 + 4 * k : k \in 1..MaxBodyWords}

FrameTypeCodes == {SectionHeaderCode, 1, 127}

Frame(fo, tc, len, body, tr) ==
    write_u32(fo, tc) \o write_u32(fo, len) \o body \o write_u32(fo, tr)

Frames ==
    {Frame(p[1], p[2], p[3], p[4], p[3] + p[5]) :
        p \in ByteOrders \X FrameTypeCodes \X FrameLens \X FrameBodies \X {0, 4}}

Tails == {<< >>, PadWord}

Wires == {f \o t : f \in Frames, t \in Tails}

\* The run of blocks of the second specification: every frame is delimited
\* by its own length, in the byte order `fo`.
RunBodies ==
    {<< >>} \cup FirstWords \cup {MagicBigWord \o PadWord, MagicLittleWord \o PadWord}

RunFrames == [fo : ByteOrders, tc : FrameTypeCodes, body : RunBodies]

EncodeFrame(f) ==
    Frame(f.fo, f.tc, 12 + Len(f.body), f.body, 12 + Len(f.body))

RECURSIVE Concat(_)
Concat(fs) == IF fs = << >> THEN << >> ELSE EncodeFrame(Head(fs)) \o Concat(Tail(fs))

Runs == UNION {[1..n -> RunFrames] : n \in 1..MaxBlocks}

TypeCodeSamples == (0..MaxTypeCode) \cup {SectionHeaderCode, 255, 2125315823}

BlockTypeValues ==
    {Known(t) : t \in KnownTags} \cup {Unknown(c) : c \in TypeCodeSamples}

EncBodies == UNION {[1..n -> {0, 77}] : n \in 0..MaxEncBody}

EncTypes == {Known(t) : t \in KnownTags} \cup {Unknown(127)}

(***************************************************************************)
(* Specification Spec: one buffer, decoded through both entry points.      *)
(***************************************************************************)
IdleDec ==
    /\ avail = 0 /\ sres = NoRes /\ rres = NoRes /\ fedFrom = -1 /\ post = NoPost

IdleRun ==
    /\ frames = << >> /\ rem = << >> /\ cur = "none" /\ blocks = << >>
    /\ last = NoRes

IdleType == bt = NoType /\ code = -1 /\ back = NoType

IdleEnc == value = NoValue /\ emitted = NoEmitted

Init ==
    /\ wire \in Wires
    /\ order \in ByteOrders
    /\ avail \in 0..Len(wire)
    /\ sres = NoRes /\ rres = NoRes /\ fedFrom = -1 /\ post = NoPost
    /\ IdleRun /\ IdleType /\ IdleEnc

\* The bytes the caller hands to the decoder.
Buf == Take(wire, avail)

FromSlice ==
    /\ sres.kind = "none"
    /\ sres' = from_slice(order, Buf)
    /\ UNCHANGED << wire, order, avail, rres, fedFrom, post >>
    /\ UNCHANGED << runVars, typeVars, encVars >>

FromReader ==
    /\ rres.kind = "none"
    /\ rres' = from_reader(order, Buf)
    /\ UNCHANGED << wire, order, avail, sres, fedFrom, post >>
    /\ UNCHANGED << runVars, typeVars, encVars >>

\* The caller of from_slice, on IncompleteBuffer(n): buffer n more bytes and
\* decode again from the start.
Feed ==
    /\ sres.kind = "IncompleteBuffer"
    /\ avail + sres.n <= Len(wire)
    /\ avail' = avail + sres.n
    /\ fedFrom' = avail
    /\ sres' = NoRes /\ rres' = NoRes /\ post' = NoPost
    /\ UNCHANGED << wire, order >>
    /\ UNCHANGED << runVars, typeVars, encVars >>

Decoded(src) == IF src = "slice" THEN sres ELSE rres

\* b.write_to::<B, _>(&mut Vec) on a decoded Block b
WriteTo ==
    /\ post.op = "none"
    /\ \E src \in {"slice", "reader"}, B \in ByteOrders :
          /\ Decoded(src).kind = "Ok"
          /\ LET b == Decoded(src).block
                 w == write_to(B, b)
             IN  post' = [NoPost EXCEPT !.op = "write_to", !.src = src, !.B = B,
                                        !.block = b, !.out = w.out, !.ret = w.ret]
    /\ UNCHANGED << wire, order, avail, sres, rres, fedFrom >>
    /\ UNCHANGED << runVars, typeVars, encVars >>

\* The bytes written are decoded again, in the order they were written in.
Redecode ==
    /\ post.op = "write_to"
    /\ \E via \in {"slice", "reader"} :
          post' = [post EXCEPT !.op = "redecode", !.via = via,
                               !.res = IF via = "slice"
                                       THEN from_slice(post.B, post.out)
                                       ELSE from_reader(post.B, post.out)]
    /\ UNCHANGED << wire, order, avail, sres, rres, fedFrom >>
    /\ UNCHANGED << runVars, typeVars, encVars >>

\* b.parsed() on a decoded Block b
Parsed ==
    /\ post.op = "none"
    /\ \E src \in {"slice", "reader"} :
          /\ Decoded(src).kind = "Ok"
          /\ LET b == Decoded(src).block
             IN  post' = [NoPost EXCEPT !.op = "parsed", !.src = src,
                                        !.block = b, !.parsed = parsed(b)]
    /\ UNCHANGED << wire, order, avail, sres, rres, fedFrom >>
    /\ UNCHANGED << runVars, typeVars, encVars >>

\* ParsedBlock::from_slice::<B>(b.type_, slice) called directly, on any
\* leading part of the body of a decoded Block b
Dispatch ==
    /\ post.op = "none"
    /\ \E src \in {"slice", "reader"}, B \in ByteOrders :
          /\ Decoded(src).kind = "Ok"
          /\ LET b == Decoded(src).block
             IN  \E k \in 0..Len(b.body) :
                    post' = [NoPost EXCEPT
                                !.op = "dispatch", !.src = src, !.B = B,
                                !.block = b,
                                !.parsed = ParsedBlock_from_slice(
                                               B, b.type_, Take(b.body, k))]
    /\ UNCHANGED << wire, order, avail, sres, rres, fedFrom >>
    /\ UNCHANGED << runVars, typeVars, encVars >>

Next == FromSlice \/ FromReader \/ Feed \/ WriteTo \/ Redecode \/ Parsed \/ Dispatch

Spec == Init /\ [][Next]_vars

(***************************************************************************)
(* Specification SpecRun: a buffer of several blocks, decoded by           *)
(* successive from_slice calls, each on the remainder of the one before    *)
(* and in the endianness recorded on the Block before.                     *)
(***************************************************************************)
InitRun ==
    /\ frames \in Runs
    /\ order \in ByteOrders
    /\ wire = Concat(frames)
    /\ rem = wire
    /\ cur = EndiannessNew(order)
    /\ blocks = << >>
    /\ last = NoRes
    /\ avail = Len(wire) /\ sres = NoRes /\ rres = NoRes /\ fedFrom = -1
    /\ post = NoPost
    /\ IdleType /\ IdleEnc

RunStep ==
    /\ last.kind \in {"none", "Ok"}
    /\ LET r == from_slice(EndiannessOrder(cur), rem)
       IN  /\ last' = r
           /\ IF r.kind = "Ok"
              THEN /\ blocks' = Append(blocks, r.block)
                   /\ rem' = r.rem
                   /\ cur' = r.block.endianness
              ELSE UNCHANGED << blocks, rem, cur >>
    /\ UNCHANGED << frames, decVars, typeVars, encVars >>

NextRun == RunStep

SpecRun == InitRun /\ [][NextRun]_vars

(***************************************************************************)
(* Specification SpecType: a BlockType converted to its u32 and back.      *)
(***************************************************************************)
InitType ==
    /\ bt \in BlockTypeValues
    /\ code = -1
    /\ back = NoType
    /\ wire = << >> /\ order = "BigEndian" /\ IdleDec /\ IdleRun /\ IdleEnc

Into ==
    /\ code = -1
    /\ code' = BlockTypeInto(bt)
    /\ UNCHANGED << bt, back, decVars, runVars, encVars >>

From ==
    /\ code # -1
    /\ back = NoType
    /\ back' = BlockTypeFrom(code)
    /\ UNCHANGED << bt, code, decVars, runVars, encVars >>

NextType == Into \/ From

SpecType == InitType /\ [][NextType]_vars

(***************************************************************************)
(* Specification SpecWrite: write_block_to on a per-type block value.      *)
(***************************************************************************)
InitWrite ==
    /\ value \in [block_type : EncTypes, body : EncBodies]
    /\ order \in ByteOrders
    /\ emitted = NoEmitted
    /\ wire = << >> /\ IdleDec /\ IdleRun /\ IdleType

WriteBlockTo ==
    /\ ~emitted.done
    /\ LET w == write_block_to(order, value.block_type, value.body)
       IN  emitted' = [done |-> TRUE, out |-> w.out, ret |-> w.ret]
    /\ UNCHANGED << value, decVars, runVars, typeVars >>

NextWrite == WriteBlockTo

SpecWrite == InitWrite /\ [][NextWrite]_vars


(***************************************************************************)
(* Properties.                                                             *)
(***************************************************************************)
OtherOrder(B) == IF B = "BigEndian" THEN "LittleEndian" ELSE "BigEndian"

\* The first n bytes of s, all of s when it is shorter.
Prefix(s, n) == SubSeq(s, 1, IF n < Len(s) THEN n ELSE Len(s))

SectionHeaderWord == << 10, 13, 13, 10 >>

\* The byte order in force for the block at the head of x: the order its
\* magic announces for a SectionHeader, the caller's B for any other block.
OrderInForce(B, x) ==
    IF Take(x, 4) = SectionHeaderWord
    THEN IF SubSeq(x, 9, 12) = MagicBigWord THEN "BigEndian" ELSE "LittleEndian"
    ELSE B

\* A SectionHeader must carry one of the two magic values.
MagicOk(x) ==
    Take(x, 4) = SectionHeaderWord
        => SubSeq(x, 9, 12) \in {MagicBigWord, MagicLittleWord}

\* x is exactly one valid encoded block, by the wire layout: x is as long as
\* its leading length says, that length is a multiple of 4, at least 12, and
\* repeated in the last four bytes.
ValidBlock(B, x) ==
    /\ Len(x) >= 12
    /\ MagicOk(x)
    /\ LET o == OrderInForce(B, x)
           L == read_u32(o, SubSeq(x, 5, 8))
       IN  /\ L = Len(x)
           /\ L % 4 = 0
           /\ read_u32(o, SubSeq(x, L - 3, L)) = L

\* The lengths L for which the first L bytes of the wire are a valid block.
ValidLens == {L \in 12..Len(wire) : ValidBlock(order, Take(wire, L))}

BlockInv(b) ==
    /\ b.initial_len = b.trailer_len
    /\ b.initial_len % 4 = 0
    /\ b.initial_len >= 12
    /\ Len(b.body) = b.initial_len - 12

\* C1: every Block returned as Ok by from_slice or from_reader has
\* initial_len = trailer_len, initial_len a multiple of 4 and at least 12,
\* and a body of initial_len - 12 bytes.
C1_OkBlockInvariant ==
    /\ sres.kind = "Ok" => BlockInv(sres.block)
    /\ rres.kind = "Ok" => BlockInv(rres.block)

C1_Witness ==
    /\ sres.kind = "Ok" /\ rres.kind = "Ok"
    /\ Len(sres.block.body) = 8
    /\ sres.block.endianness = "Little"

\* The buffer holds at least 12 bytes and at least as many as its leading
\* length (in the order in force) declares, and that length is not a multiple
\* of 4, or is below 12, or differs from the length found at offset length-4.
LengthFault(B, x) ==
    /\ Len(x) >= 12
    /\ MagicOk(x)
    /\ LET o == OrderInForce(B, x)
           L == read_u32(o, SubSeq(x, 5, 8))
       IN  /\ Len(x) >= L
           /\ \/ L % 4 # 0
              \/ L < 12
              \/ read_u32(o, SubSeq(x, L - 3, L)) # L

\* C2: on a buffer with such a length fault both from_slice and from_reader
\* fail with InvalidField.
C2_LengthFaultIsInvalidField ==
    LengthFault(order, Buf) =>
        /\ sres.kind # "none" => sres.kind = "InvalidField"
        /\ rres.kind # "none" => rres.kind = "InvalidField"

\* C3, as claimed: on every proper prefix P of a valid block of length L,
\* from_slice fails with IncompleteBuffer(L - len(P)), and succeeds on P
\* extended by that many bytes.
C3_EveryPrefixReportsRest ==
    \A L \in ValidLens :
        /\ (avail < L /\ sres.kind # "none")
              => sres = IncompleteBuffer(L - avail)
        /\ (fedFrom >= 0 /\ fedFrom < L /\ sres.kind # "none")
              => sres.kind = "Ok"

\* C3, amended: on a proper prefix P of at least 12 bytes from_slice fails
\* with IncompleteBuffer(L - len(P)), and on P extended by that many bytes it
\* returns the block of length L; on a prefix shorter than 12 bytes it fails
\* with IncompleteBuffer(12 - len(P)).
C3_PrefixReportsRest ==
    \A L \in ValidLens :
        /\ (12 <= avail /\ avail < L /\ sres.kind # "none")
              => sres = IncompleteBuffer(L - avail)
        /\ (avail < 12 /\ avail < L /\ sres.kind # "none")
              => sres = IncompleteBuffer(12 - avail)
        /\ (12 <= fedFrom /\ fedFrom < L /\ sres.kind # "none")
              => /\ avail = L
                 /\ sres.kind = "Ok"
                 /\ sres.block.initial_len = L

C3_Witness ==
    /\ \E L \in ValidLens : 12 <= fedFrom /\ fedFrom < L /\ avail = L
    /\ sres.kind = "Ok"
    /\ sres.block.type_ = Known("SectionHeader")

\* What C4 says of one outcome r of decoding x, a SectionHeader of at least
\* 12 bytes.
SectionFacts(r, x) ==
    LET m == SubSeq(x, 9, 12)
        L == r.block.initial_len
    IN  /\ (m = MagicBigWord /\ r.kind = "Ok")
              => /\ r.block.endianness = "Big"
                 /\ L = read_u32("BigEndian", SubSeq(x, 5, 8))
                 /\ r.block.trailer_len
                        = read_u32("BigEndian", SubSeq(x, L - 3, L))
        /\ (m = MagicLittleWord /\ r.kind = "Ok")
              => /\ r.block.endianness = "Little"
                 /\ L = read_u32("LittleEndian", SubSeq(x, 5, 8))
                 /\ L = swap_bytes(read_u32("BigEndian", SubSeq(x, 5, 8)))
                 /\ r.block.trailer_len
                        = read_u32("LittleEndian", SubSeq(x, L - 3, L))
        /\ m \notin {MagicBigWord, MagicLittleWord} => r.kind = "InvalidField"

\* C4: on a buffer of at least 12 bytes that starts with 0A 0D 0D 0A the
\* outcome of each decoder is the same under either caller order; with the
\* magic 1A 2B 3C 4D the Block records Big and big-endian lengths, with
\* 4D 3C 2B 1A Little and little-endian lengths; any other magic is
\* InvalidField.
C4_SectionHeaderOrderDiscovery ==
    (avail >= 12 /\ Take(Buf, 4) = SectionHeaderWord) =>
        /\ sres.kind # "none"
              => /\ sres = from_slice(OtherOrder(order), Buf)
                 /\ SectionFacts(sres, Buf)
        /\ rres.kind # "none"
              => /\ rres = from_reader(OtherOrder(order), Buf)
                 /\ SectionFacts(rres, Buf)

C4_Witness ==
    /\ order = "BigEndian"
    /\ sres.kind = "Ok" /\ rres.kind = "Ok"
    /\ sres.block.type_ = Known("SectionHeader")
    /\ sres.block.endianness = "Little"
    /\ sres.block.initial_len = 20

\* C5: a decoded Block b, written by write_to in the order b.endianness
\* records, is the first b.initial_len bytes of the input, write_to returns
\* b.initial_len = 12 + body.len(), and decoding the bytes written gives b.
C5_RoundTrip ==
    (/\ post.op \in {"write_to", "redecode"}
     /\ post.B = EndiannessOrder(post.block.endianness)) =>
        /\ post.out = Prefix(Buf, post.block.initial_len)
        /\ Len(post.out) = post.block.initial_len
        /\ post.ret = post.block.initial_len
        /\ post.ret = 12 + Len(post.block.body)
        /\ post.op = "redecode"
              => /\ post.res.kind = "Ok"
                 /\ post.res.block = post.block
                 /\ post.res.rem = << >>

C5_Witness ==
    /\ post.op = "redecode"
    /\ post.src = "reader" /\ post.via = "slice"
    /\ post.block.type_ = Known("SectionHeader")
    /\ post.block.endianness = "Little"
    /\ post.B = "LittleEndian"
    /\ order = "BigEndian"
    /\ post.res.kind = "Ok"

\* The Block a frame of a run is the encoding of.
ExpectedBlock(f) ==
    MkBlock(BlockTypeFrom(f.tc), 12 + Len(f.body), f.body, 12 + Len(f.body),
            IF f.fo = "BigEndian" THEN "Big" ELSE "Little")

\* A frame is a valid block under the endianness e in force: a SectionHeader
\* carries the magic of its own order, any other block is in the order e.
ValidFrame(f, e) ==
    IF f.tc = SectionHeaderCode
    THEN /\ Len(f.body) >= 4
         /\ Take(f.body, 4)
                = (IF f.fo = "BigEndian" THEN MagicBigWord ELSE MagicLittleWord)
    ELSE f.fo = EndiannessOrder(e)

RECURSIVE ValidRun(_, _)
ValidRun(fs, e) ==
    \/ fs = << >>
    \/ /\ ValidFrame(Head(fs), e)
       /\ ValidRun(Tail(fs), IF Head(fs).fo = "BigEndian" THEN "Big" ELSE "Little")

\* C6: n valid blocks, concatenated, decode by successive from_slice calls
\* into those n Blocks in order, each call leaving its input less the
\* block's bytes; after the n-th nothing is left, and one more call fails
\* with IncompleteBuffer(12).
C6_RunDecodesInOrder ==
    ValidRun(frames, EndiannessNew(order)) =>
        LET k == Len(blocks)
        IN  /\ k <= Len(frames)
            /\ \A i \in 1..k : blocks[i] = ExpectedBlock(frames[i])
            /\ rem = Concat(SubSeq(frames, k + 1, Len(frames)))
            /\ Len(rem) = Len(wire) - Len(Concat(SubSeq(frames, 1, k)))
            /\ last.kind = "Ok" => (k >= 1 /\ last.block = blocks[k])
            /\ last.kind = "none" => k = 0
            /\ last.kind \notin {"none", "Ok"}
                  => /\ k = Len(frames)
                     /\ rem = << >>
                     /\ last = IncompleteBuffer(12)

C6_Witness ==
    /\ ValidRun(frames, EndiannessNew(order))
    /\ Len(frames) = 2
    /\ frames[1].tc = SectionHeaderCode /\ frames[1].fo = "LittleEndian"
    /\ Len(frames[1].body) = 8
    /\ frames[2].tc = 1
    /\ order = "BigEndian"
    /\ Len(blocks) = 2
    /\ last = IncompleteBuffer(12)

KnownCodes == {SectionHeaderCode, 1, 2, 3, 4, 5, 6, 9}

\* C7, as claimed: from(into(t)) = t for every BlockType value t, Unknown(c)
\* with any code c included.
C7_EveryTypeRoundTrips == back # NoType => back = bt

\* C7, amended: from(into(t)) = t for each of the eight known variants and
\* for Unknown(c) with c not the code of a known variant; for Unknown(c) with
\* c such a code, from(into(t)) is that known variant.  into recovers the
\* code of an Unknown, and from always yields a BlockType of the same code.
C7_TypeRoundTrips ==
    /\ (code # -1 /\ bt.tag = "Unknown") => code = bt.code
    /\ back # NoType =>
          /\ back.tag \in KnownTags \cup {"Unknown"}
          /\ BlockTypeInto(back) = code
          /\ (bt.tag # "Unknown" \/ bt.code \notin KnownCodes) => back = bt
          /\ (bt.tag = "Unknown" /\ bt.code \in KnownCodes)
                => (back.tag # "Unknown" /\ back # bt)

C7_Witness ==
    /\ back = bt
    /\ bt = Known("SystemdJournalExport")
    /\ code = 9

\* C8: for a decoded Block of an unknown type, parsed() is Ok with the
\* Unknown variant carrying the type, the body unchanged and the length
\* body.len() + 12 = initial_len; ParsedBlock::from_slice for such a type
\* reports an empty remainder and the length slice.len() + 12, whatever the
\* slice.
C8_UnknownNeverFails ==
    (post.op \in {"parsed", "dispatch"} /\ post.block.type_.tag = "Unknown") =>
        /\ post.parsed.kind = "Ok"
        /\ post.parsed.variant = "Unknown"
        /\ post.parsed.type_ = post.block.type_
        /\ post.parsed.length = Len(post.parsed.value) + 12
        /\ post.op = "parsed"
              => /\ post.parsed.value = post.block.body
                 /\ post.parsed.length = post.block.initial_len
        /\ post.op = "dispatch"
              => /\ post.parsed.rem = << >>
                 /\ post.parsed.value
                        = Prefix(post.block.body, Len(post.parsed.value))

C8_Witness ==
    /\ post.op = "parsed"
    /\ post.block.type_ = Unknown(127)
    /\ post.block.endianness = "Little"
    /\ Len(post.block.body) = 8
    /\ post.parsed.kind = "Ok"

\* C9: write_block_to emits the type code of BLOCK_TYPE, m + 12, the m body
\* bytes and m + 12 again, all in order B, and returns m + 12, the number of
\* bytes emitted.
C9_WriteBlockLayout ==
    emitted.done =>
        LET m == Len(value.body)
            out == emitted.out
        IN  /\ Len(out) = m + 12
            /\ emitted.ret = m + 12
            /\ emitted.ret = Len(out)
            /\ BlockTypeFrom(read_u32(order, SubSeq(out, 1, 4))) = value.block_type
            /\ read_u32(order, SubSeq(out, 5, 8)) = m + 12
            /\ SubSeq(out, 9, 8 + m) = value.body
            /\ read_u32(order, SubSeq(out, m + 9, m + 12)) = m + 12

C9_Witness ==
    /\ emitted.done
    /\ order = "LittleEndian"
    /\ Len(value.body) = 3
    /\ value.block_type = Known("EnhancedPacket")
    /\ emitted.ret = 15

\* C10: from_reader returns Ok exactly when from_slice does, on the same
\* bytes and order, and then with an equal Block (for a SectionHeader a body
\* that starts with the magic bytes of the wire), the stream having consumed
\* the initial_len bytes the slice path removed.
C10_ReaderMatchesSlice ==
    (sres.kind # "none" /\ rres.kind # "none") =>
        /\ sres.kind = "Ok" <=> rres.kind = "Ok"
        /\ sres.kind = "Ok"
              => /\ rres.block = sres.block
                 /\ rres.rem = sres.rem
                 /\ Len(Buf) - Len(rres.rem) = sres.block.initial_len
                 /\ Len(Buf) - Len(sres.rem) = sres.block.initial_len
                 /\ sres.block.type_ = Known("SectionHeader")
                       => Take(rres.block.body, 4) = SubSeq(Buf, 9, 12)

C10_Witness ==
    /\ sres.kind = "Ok" /\ rres.kind = "Ok"
    /\ sres.block.type_ = Known("SectionHeader")
    /\ Len(sres.block.body) = 8
    /\ Len(rres.rem) = 4

=============================================================================
